---- MODULE Spec2Model ----
(***************************************************************************)
(* A model of pastecat's content store (src/paste.go).                     *)
(*                                                                         *)
(* Spec       : the FileStore version (Get / Put / Delete / Recover /      *)
(*              Report, FileContent.Close) with its RWMutex, the per-entry *)
(*              sync.WaitGroup, the quota tracker and deletion timers.     *)
(* SpecRecover: the startup walk of the FileStore version in detail.       *)
(* SpecLive   : the FileStore in service, with goroutine scheduling        *)
(*              (fairness) made explicit.                                  *)
(* SpecPastes : the earlier version with the global pastes registry        *)
(*              (RandomId, Id.EndLife / EndLifeAfter, walkFunc, the POST   *)
(*              handler), with a clock.                                    *)
(***************************************************************************)
EXTENDS Integers, Sequences, FiniteSets, TLC

(***************************************************************************)
(* Program constants                                                       *)
(***************************************************************************)
idSize == 8

rawIdSize == idSize \div 2

randTries == 10

(***************************************************************************)
(* Bounds of the model                                                     *)
(***************************************************************************)
\* configured maximum of the quota tracker, in bytes
MaxStorage == 2

\* the process start time (startTime), in abstract time units
StartTime == 5

\* the fixed backoff of a failed scheduled deletion, in the same units
Backoff == 2

\* how far the clock runs after the start
MaxTicks == 4

\* raw identifiers the random source can produce
IDs == {<<0, 0, 0, 1>>, <<171, 0, 0, 1>>}

\* byte sequences a client can put
Contents == {<<7>>, <<7, 8>>}

\* configured lifetimes (0 = expiry disabled)
LifeTimes == {3}

\* modification times of the files found on disk at startup
ModTimes == {1, 5}

Clients == {"c1", "c2"}

TimerThreads == {"t1", "t2"}

Main == "main"

Threads == Clients \cup TimerThreads \cup {Main}

NoId == <<>>

NoThread == "none"

\* outcome of rand.Read failing
RandErr == <<255>>

\* what the random source yields over the tries of one identifier generation
DrawSeqs ==
    {[i \in 1 .. randTries |-> IF i = 1 THEN a ELSE b] :
        a \in IDs \cup {RandErr}, b \in IDs \cup {RandErr}}

ErrNone == "nil"

ErrPasteNotFound == "ErrPasteNotFound"

ErrReachedMax == "ErrReachedMax"

ErrNoUnusedIDFound == "ErrNoUnusedIDFound"

\* any error coming from the operating system (open, write, close, remove)
ErrIO == "os error"

\* the error of os.OpenFile with O_EXCL when the path exists
ErrExist == "file exists"

(***************************************************************************)
(* Identifier encoding and on-disk layout                                  *)
(***************************************************************************)
\* hex.EncodeToString: two hex digits (0..15) per byte, high nibble first
RECURSIVE EncodeToString(_)
EncodeToString(bytes) ==
    IF bytes = <<>> THEN <<>>
    ELSE <<Head(bytes) \div 16, Head(bytes) % 16>> \o EncodeToString(Tail(bytes))

\* hex.DecodeString on a sequence of hex digits of even length
RECURSIVE DecodeString(_)
DecodeString(digits) ==
    IF Len(digits) < 2 THEN <<>>
    ELSE <<digits[1] * 16 + digits[2]>> \o DecodeString(Tail(Tail(digits)))

IdString(id) == EncodeToString(id)

\* path.Join(hexID[:2], hexID[2:]) : <<directory, file name>>
PastePath(id) == <<SubSeq(IdString(id), 1, 2), SubSeq(IdString(id), 3, idSize)>>

\* parts[0] + parts[1] decoded back to an identifier (NoId when invalid)
IdFromPath(p) ==
    IF Len(p) # 2 \/ Len(p[1] \o p[2]) # idSize THEN NoId
    ELSE DecodeString(p[1] \o p[2])

Paths == {PastePath(id) : id \in IDs}

(***************************************************************************)
(* Small helpers on finite maps                                            *)
(***************************************************************************)
MapRemove(f, k) == [x \in DOMAIN f \ {k} |-> f[x]]

MapPut(f, k, v) == [x \in DOMAIN f \cup {k} |-> IF x = k THEN v ELSE f[x]]

RECURSIVE SumSizes(_, _)
SumSizes(f, S) ==
    IF S = {} THEN 0
    ELSE LET k == CHOOSE x \in S : TRUE
         IN f[k].header.Size + SumSizes(f, S \ {k})

(***************************************************************************)
(* State                                                                   *)
(***************************************************************************)
VARIABLES
    cache,      \* FileStore.cache : ID -> fileCache
    stats,      \* FileStore.stats : the quota tracker
    mu,         \* FileStore's embedded sync.RWMutex
    files,      \* the data directory : path -> [data, modTime]
    lifeTime,   \* the configured lifetime
    walk,       \* startup walk: the paths still to be visited
    pc,         \* position of every goroutine
    lv,         \* locals of the call each goroutine is executing
    ret,        \* the error value of the call that returned last
    handle,     \* the FileContent each client holds, if any
    putBytes,   \* history: the bytes given to the Put that created a live entry
    now         \* the clock (time.Now())

vars == <<cache, stats, mu, files, lifeTime, walk, pc, lv, ret, handle, putBytes,
          now>>

NoLocals == [id |-> NoId, content |-> <<>>, size |-> 0, reading |-> 0,
             path |-> <<>>, after |-> 0, lastErr |-> ErrNone, at |-> 0]

NoHandle == [open |-> FALSE, id |-> NoId, data |-> <<>>, reading |-> 0, size |-> 0]

(***************************************************************************)
(* Quota tracker                                                           *)
(***************************************************************************)
hasSpaceFor(st, size) == st.storage + size <= MaxStorage

makeSpaceFor(st, size) == [st EXCEPT !.storage = @ + size]

freeSpace(st, size) == [st EXCEPT !.storage = @ - size]

genHeader(id, modTime, size) == [ModTime |-> modTime, Size |-> size]

(***************************************************************************)
(* sync.RWMutex                                                            *)
(***************************************************************************)
\* C15 mutant: Lock does not wait for the writer that holds the lock
CanLock_NoWriterCheck == mu.readers = {}

CanLock == mu.writer = NoThread /\ mu.readers = {}

CanRLock == mu.writer = NoThread

Lock(t) == [mu EXCEPT !.writer = t]

Unlock == [mu EXCEPT !.writer = NoThread]

RLock(t) == [mu EXCEPT !.readers = @ \cup {t}]

RUnlock(t) == [mu EXCEPT !.readers = @ \ {t}]

(***************************************************************************)
(* Initial state: a data directory left by an earlier run                  *)
(***************************************************************************)
FileInfos == [data : Contents, modTime : ModTimes]

InitDisks == UNION {[S -> FileInfos] : S \in SUBSET Paths}

\* filepath.Walk visits the files in lexical order
RECURSIVE SeqLess(_, _)
SeqLess(a, b) ==
    IF a = <<>> THEN b # <<>>
    ELSE IF b = <<>> THEN FALSE
    ELSE IF Head(a) # Head(b) THEN Head(a) < Head(b)
    ELSE SeqLess(Tail(a), Tail(b))

RECURSIVE WalkOrder(_)
WalkOrder(S) ==
    IF S = {} THEN <<>>
    ELSE LET first == CHOOSE p \in S :
                 \A q \in S \ {p} : SeqLess(p[1] \o p[2], q[1] \o q[2])
         IN <<first>> \o WalkOrder(S \ {first})

Init ==
    /\ cache = [x \in {} |-> 0]
    /\ stats = [storage |-> 0]
    /\ mu = [writer |-> NoThread, readers |-> {}]
    /\ files \in InitDisks
    /\ lifeTime \in LifeTimes
    /\ walk = WalkOrder(DOMAIN files)
    /\ pc = [t \in Threads |->
                IF t = Main THEN "rec_age"
                ELSE IF t \in TimerThreads THEN "free" ELSE "idle"]
    /\ lv = [t \in Threads |-> NoLocals]
    /\ ret = ErrNone
    /\ handle = [c \in Clients |-> NoHandle]
    /\ putBytes = [x \in {} |-> 0]
    /\ now = StartTime

Serving == pc[Main] = "serving"

(***************************************************************************)
(* Scheduled deletion (SetupPasteDeletion): a timer goroutine that calls   *)
(* Delete when it fires and re-arms itself with the backoff on failure     *)
(***************************************************************************)
Armed(id, after) == [NoLocals EXCEPT !.id = id, !.after = after]

Rearmed(id, err) == [NoLocals EXCEPT !.id = id, !.after = Backoff, !.lastErr = err]

\* the goroutine slot a new timer takes: the first free one
TimerOrder == <<"t1", "t2">>

IsFreeTimer(tt) ==
    /\ pc[tt] = "free"
    /\ \A i, j \in DOMAIN TimerOrder :
          TimerOrder[j] = tt /\ i < j => pc[TimerOrder[i]] # "free"

(***************************************************************************)
(* FileStore.Get and FileContent.Close                                     *)
(***************************************************************************)
GetRLock(c, id) ==
    /\ Serving
    /\ pc[c] = "idle"
    /\ ~handle[c].open
    /\ CanRLock
    /\ mu' = RLock(c)
    /\ pc' = [pc EXCEPT ![c] = "get_body"]
    /\ lv' = [lv EXCEPT ![c].id = id]
    /\ UNCHANGED <<cache, stats, files, lifeTime, walk, ret, handle, putBytes, now>>
\* cached is a copy of the map value: the WaitGroup the handle points to is
\* the copy's, not the one stored in the map
GetResult(id) ==
    IF id \notin DOMAIN cache
    THEN [err |-> ErrPasteNotFound, h |-> NoHandle]
    ELSE LET cached == cache[id] IN
         IF cached.path \notin DOMAIN files
         THEN [err |-> ErrIO, h |-> NoHandle]
         ELSE [err |-> ErrNone,
               h |-> [open |-> TRUE, id |-> id, data |-> files[cached.path].data,
                      reading |-> cached.reading + 1, size |-> cached.header.Size]]

GetBody(c) ==
    /\ pc[c] = "get_body"
    /\ LET r == GetResult(lv[c].id) IN
        /\ handle' = [handle EXCEPT ![c] = r.h]
        /\ ret' = r.err
    /\ mu' = RUnlock(c)
    /\ pc' = [pc EXCEPT ![c] = "idle"]
    /\ lv' = [lv EXCEPT ![c] = NoLocals]
    /\ UNCHANGED <<cache, stats, files, lifeTime, walk, putBytes, now>>
\* c.file.Close(); c.reading.Done()
Close(c) ==
    /\ handle[c].open
    /\ handle' = [handle EXCEPT ![c] = NoHandle]
    /\ UNCHANGED <<cache, stats, mu, files, lifeTime, walk, pc, lv, ret, putBytes, now>>
(***************************************************************************)
(* randomID, writeNewFile and FileStore.Put                                *)
(***************************************************************************)
\* C7 mutant: the drawn identifier is not looked up in the index
randomIDAccepts_NoIndexCheck(index, draw) == draw # RandErr

\* one iteration of randomID's loop: is the drawn identifier accepted?
randomIDAccepts(index, draw) == draw # RandErr /\ draw \notin DOMAIN index

RECURSIVE randomID(_, _, _)
randomID(index, draws, try) ==
    IF try >= randTries THEN [id |-> NoId, err |-> ErrNoUnusedIDFound, tries |-> try]
    ELSE IF randomIDAccepts(index, draws[try + 1])
    THEN [id |-> draws[try + 1], err |-> ErrNone, tries |-> try + 1]
    ELSE randomID(index, draws, try + 1)

\* C4 mutant: a short write is not noticed (no io.ErrShortWrite)
writeNewFile_IgnoreShortWrite(fs, filename, data, n, closeErr) ==
    IF filename \in DOMAIN fs THEN [files |-> fs, err |-> ErrExist]
    ELSE IF n < 0 THEN [files |-> fs, err |-> ErrIO]
    ELSE [files |-> MapPut(fs, filename,
                           [data |-> SubSeq(data, 1, n), modTime |-> StartTime]),
          err |-> IF closeErr THEN ErrIO ELSE ErrNone]

\* C16 mutant: the file is opened without O_EXCL and an existing file is
\* overwritten
writeNewFile_NoExcl(fs, filename, data, n, closeErr) ==
    IF n < 0 THEN [files |-> fs, err |-> ErrIO]
    ELSE [files |-> MapPut(fs, filename,
                           [data |-> SubSeq(data, 1, n), modTime |-> StartTime]),
          err |-> IF n < Len(data) \/ closeErr THEN ErrIO ELSE ErrNone]

\* O_EXCL create, then Write and Close.  n is the number of bytes that reach
\* the file (-1: the create itself fails), closeErr whether Close fails.
writeNewFile(fs, filename, data, n, closeErr) ==
    IF filename \in DOMAIN fs THEN [files |-> fs, err |-> ErrExist]
    ELSE IF n < 0 THEN [files |-> fs, err |-> ErrIO]
    ELSE [files |-> MapPut(fs, filename,
                           [data |-> SubSeq(data, 1, n), modTime |-> StartTime]),
          err |-> IF n < Len(data) \/ closeErr THEN ErrIO ELSE ErrNone]

\* s.Lock().  A client calls Put while a goroutine slot is left for the
\* deletion timer of the new paste.
PutLock(c, content) ==
    /\ Serving
    /\ pc[c] = "idle"
    /\ ~handle[c].open
    /\ lifeTime > 0 => \E tt \in TimerThreads : pc[tt] = "free"
    /\ CanLock
    /\ mu' = Lock(c)
    /\ pc' = [pc EXCEPT ![c] = "put_begin"]
    /\ lv' = [lv EXCEPT ![c] = [NoLocals EXCEPT !.content = content,
                                                !.size = Len(content)]]
    /\ UNCHANGED <<cache, stats, files, lifeTime, walk, ret, handle, putBytes, now>>
\* C5 mutant: the space is reserved before the identifier is generated and
\* not given back when the generation fails
PutBegin_ReserveFirst(c, draws) ==
    /\ pc[c] = "put_begin"
    /\ LET r == randomID(cache, draws, 0) IN
       IF ~hasSpaceFor(stats, lv[c].size)
       THEN /\ ret' = ErrReachedMax
            /\ mu' = Unlock
            /\ pc' = [pc EXCEPT ![c] = "idle"]
            /\ lv' = [lv EXCEPT ![c] = NoLocals]
            /\ stats' = stats
       ELSE IF r.err # ErrNone
       THEN /\ ret' = r.err
            /\ mu' = Unlock
            /\ pc' = [pc EXCEPT ![c] = "idle"]
            /\ lv' = [lv EXCEPT ![c] = NoLocals]
            /\ stats' = makeSpaceFor(stats, lv[c].size)
       ELSE /\ pc' = [pc EXCEPT ![c] = "put_write"]
            /\ lv' = [lv EXCEPT ![c].id = r.id, ![c].path = PastePath(r.id)]
            /\ stats' = stats
            /\ UNCHANGED <<ret, mu>>
    /\ UNCHANGED <<cache, files, lifeTime, walk, handle, putBytes, now>>
\* lines 357-365: hasSpaceFor, randomID, the path of the new paste
PutBegin(c, draws) ==
    /\ pc[c] = "put_begin"
    /\ LET r == randomID(cache, draws, 0) IN
       IF ~hasSpaceFor(stats, lv[c].size)
       THEN /\ ret' = ErrReachedMax
            /\ mu' = Unlock
            /\ pc' = [pc EXCEPT ![c] = "idle"]
            /\ lv' = [lv EXCEPT ![c] = NoLocals]
       ELSE IF r.err # ErrNone
       THEN /\ ret' = r.err
            /\ mu' = Unlock
            /\ pc' = [pc EXCEPT ![c] = "idle"]
            /\ lv' = [lv EXCEPT ![c] = NoLocals]
       ELSE /\ pc' = [pc EXCEPT ![c] = "put_write"]
            /\ lv' = [lv EXCEPT ![c].id = r.id, ![c].path = PastePath(r.id)]
            /\ UNCHANGED <<ret, mu>>
    /\ UNCHANGED <<cache, stats, files, lifeTime, walk, handle, putBytes, now>>
PutWrite(c, n, closeErr) ==
    /\ pc[c] = "put_write"
    /\ n \in -1 .. Len(lv[c].content)
    /\ LET w == writeNewFile(files, lv[c].path, lv[c].content, n, closeErr) IN
        /\ files' = w.files
        /\ IF w.err # ErrNone
           THEN /\ ret' = w.err
                /\ mu' = Unlock
                /\ pc' = [pc EXCEPT ![c] = "idle"]
                /\ lv' = [lv EXCEPT ![c] = NoLocals]
           ELSE /\ pc' = [pc EXCEPT ![c] = "put_reserve"]
                /\ UNCHANGED <<ret, mu, lv>>
    /\ UNCHANGED <<cache, stats, lifeTime, walk, handle, putBytes, now>>
PutReserve(c) ==
    /\ pc[c] = "put_reserve"
    /\ stats' = makeSpaceFor(stats, lv[c].size)
    /\ pc' = [pc EXCEPT ![c] = "put_insert"]
    /\ UNCHANGED <<cache, mu, files, lifeTime, walk, lv, ret, handle, putBytes, now>>
\* s.cache[id] = fileCache{...}; return id, nil.  The caller then schedules
\* the deletion of the new paste when a lifetime is configured.
PutInsert(c, tt) ==
    /\ pc[c] = "put_insert"
    /\ lifeTime > 0 => IsFreeTimer(tt)
    /\ lifeTime = 0 => tt = TimerOrder[1]
    /\ cache' = MapPut(cache, lv[c].id,
                       [reading |-> 0,
                        header |-> genHeader(lv[c].id, StartTime, lv[c].size),
                        path |-> lv[c].path])
    /\ putBytes' = MapPut(putBytes, lv[c].id, lv[c].content)
    /\ ret' = ErrNone
    /\ mu' = Unlock
    /\ IF lifeTime > 0
       THEN /\ pc' = [pc EXCEPT ![c] = "idle", ![tt] = "armed"]
            /\ lv' = [lv EXCEPT ![c] = NoLocals, ![tt] = Armed(lv[c].id, lifeTime)]
       ELSE /\ pc' = [pc EXCEPT ![c] = "idle"]
            /\ lv' = [lv EXCEPT ![c] = NoLocals]
    /\ UNCHANGED <<stats, files, lifeTime, walk, handle, now>>
(***************************************************************************)
(* FileStore.Delete                                                        *)
(***************************************************************************)
\* what the caller does with Delete's result: a client just gets it, a
\* deletion timer ends on success and re-arms itself on failure
DeleteReturns(t, id, err) ==
    /\ ret' = err
    /\ IF t \in TimerThreads
       THEN IF err = ErrNone
            THEN /\ pc' = [pc EXCEPT ![t] = "free"]
                 /\ lv' = [lv EXCEPT ![t] = NoLocals]
            ELSE /\ pc' = [pc EXCEPT ![t] = "armed"]
                 /\ lv' = [lv EXCEPT ![t] = Rearmed(id, err)]
       ELSE /\ pc' = [pc EXCEPT ![t] = "idle"]
            /\ lv' = [lv EXCEPT ![t] = NoLocals]

\* a client calls Delete: s.Lock()
ClientDelete(c, id) ==
    /\ Serving
    /\ pc[c] = "idle"
    /\ ~handle[c].open
    /\ CanLock
    /\ mu' = Lock(c)
    /\ pc' = [pc EXCEPT ![c] = "del_lookup"]
    /\ lv' = [lv EXCEPT ![c].id = id]
    /\ UNCHANGED <<cache, stats, files, lifeTime, walk, ret, handle, putBytes, now>>
\* a deletion timer fires and calls Delete: s.Lock()
TimerFire(tt) ==
    /\ pc[tt] = "armed"
    /\ CanLock
    /\ mu' = Lock(tt)
    /\ pc' = [pc EXCEPT ![tt] = "del_lookup"]
    /\ UNCHANGED <<cache, stats, files, lifeTime, walk, lv, ret, handle, putBytes, now>>
\* C6 mutant: the lookup result e is ignored, a missing entry is treated as a
\* zero-valued fileCache
DeleteLookup_NoCheck(t) ==
    /\ pc[t] = "del_lookup"
    /\ LET id == lv[t].id
           e  == id \in DOMAIN cache
       IN /\ cache' = MapRemove(cache, id)
          /\ putBytes' = MapRemove(putBytes, id)
          /\ pc' = [pc EXCEPT ![t] = "del_free"]
          /\ lv' = [lv EXCEPT ![t] = [NoLocals EXCEPT !.id = id,
                        !.reading = IF e THEN cache[id].reading ELSE 0,
                        !.size = IF e THEN cache[id].header.Size ELSE 0,
                        !.path = IF e THEN cache[id].path ELSE <<>>]]
          /\ UNCHANGED <<ret, mu>>
    /\ UNCHANGED <<stats, files, lifeTime, walk, handle, now>>
\* cached, e := s.cache[id]; if !e { return ErrPasteNotFound };
\* delete(s.cache, id)
DeleteLookup(t) ==
    /\ pc[t] = "del_lookup"
    /\ LET id == lv[t].id IN
       IF id \notin DOMAIN cache
       THEN /\ DeleteReturns(t, id, ErrPasteNotFound)
            /\ mu' = Unlock
            /\ UNCHANGED <<cache, putBytes>>
       ELSE /\ cache' = MapRemove(cache, id)
            /\ putBytes' = MapRemove(putBytes, id)
            /\ pc' = [pc EXCEPT ![t] = "del_free"]
            /\ lv' = [lv EXCEPT ![t] = [NoLocals EXCEPT !.id = id,
                                           !.reading = cache[id].reading,
                                           !.size = cache[id].header.Size,
                                           !.path = cache[id].path]]
            /\ UNCHANGED <<ret, mu>>
    /\ UNCHANGED <<stats, files, lifeTime, walk, handle, now>>
\* C2 mutant: Delete without s.stats.freeSpace
DeleteFree_NoRelease(t) ==
    /\ pc[t] = "del_free"
    /\ pc' = [pc EXCEPT ![t] = "del_wait"]
    /\ UNCHANGED <<cache, stats, mu, files, lifeTime, walk, lv, ret, handle, putBytes, now>>
DeleteFree(t) ==
    /\ pc[t] = "del_free"
    /\ stats' = freeSpace(stats, lv[t].size)
    /\ pc' = [pc EXCEPT ![t] = "del_wait"]
    /\ UNCHANGED <<cache, mu, files, lifeTime, walk, lv, ret, handle, putBytes, now>>
\* C18 mutant: the Wait of Delete never returns
WaitDone_Never(t) == FALSE

\* cached.reading.Wait() on Delete's own copy of the WaitGroup
WaitDone(t) == lv[t].reading = 0

\* C9 mutant: the error of os.Remove is swallowed
DeleteErr_Swallowed(removeErr) == ErrNone

\* the error Delete returns after os.Remove
DeleteErr(removeErr) == removeErr

DeleteRemove(t, ok) ==
    /\ pc[t] = "del_wait"
    /\ WaitDone(t)
    /\ LET removed == ok /\ lv[t].path \in DOMAIN files IN
        /\ files' = IF removed THEN MapRemove(files, lv[t].path) ELSE files
        /\ DeleteReturns(t, lv[t].id, DeleteErr(IF removed THEN ErrNone ELSE ErrIO))
    /\ mu' = Unlock
    /\ UNCHANGED <<cache, stats, lifeTime, walk, handle, putBytes, now>>
(***************************************************************************)
(* FileStore.Report                                                        *)
(***************************************************************************)
ReportLock(c) ==
    /\ Serving
    /\ pc[c] = "idle"
    /\ ~handle[c].open
    /\ CanLock
    /\ mu' = Lock(c)
    /\ pc' = [pc EXCEPT ![c] = "report"]
    /\ UNCHANGED <<cache, stats, files, lifeTime, walk, lv, ret, handle, putBytes, now>>
ReportUnlock(c) ==
    /\ pc[c] = "report"
    /\ mu' = Unlock
    /\ pc' = [pc EXCEPT ![c] = "idle"]
    /\ ret' = ErrNone
    /\ UNCHANGED <<cache, stats, files, lifeTime, walk, lv, handle, putBytes, now>>
(***************************************************************************)
(* newFileStore / setupSubdir / FileStore.Recover: the startup walk        *)
(***************************************************************************)
RecoverFails(err) ==
    /\ pc' = [pc EXCEPT ![Main] = "failed"]
    /\ lv' = [lv EXCEPT ![Main] = NoLocals]
    /\ ret' = err

\* lines 409-412: lifeTime > 0 and deathTime.Before(startTime)
RecoverExpired(modTime) == lifeTime > 0 /\ modTime + lifeTime < StartTime

\* C11 mutant: the deletion is scheduled a full lifetime after the start
RecoverLifeLeft_FullLifeTime(modTime) == lifeTime

\* line 423: lifeLeft := deathTime.Sub(startTime)
RecoverLifeLeft(modTime) == (modTime + lifeTime) - StartTime

\* lines 400-415: decode the identifier, remove the file when it has expired
RecoverAge(ok) ==
    /\ pc[Main] = "rec_age"
    /\ walk # <<>>
    /\ LET pastePath == Head(walk)
           id        == IdFromPath(pastePath)
           modTime   == files[pastePath].modTime
       IN IF RecoverExpired(modTime)
          THEN IF ok
               THEN /\ files' = MapRemove(files, pastePath)
                    /\ walk' = Tail(walk)
                    /\ UNCHANGED <<pc, lv, ret>>
               ELSE /\ RecoverFails(ErrIO)
                    /\ UNCHANGED <<files, walk>>
          ELSE /\ pc' = [pc EXCEPT ![Main] = "rec_lock"]
               /\ lv' = [lv EXCEPT ![Main] =
                           [NoLocals EXCEPT !.id = id, !.path = pastePath,
                                            !.size = Len(files[pastePath].data),
                                            !.after = RecoverLifeLeft(modTime)]]
               /\ UNCHANGED <<files, walk, ret>>
    /\ UNCHANGED <<cache, stats, mu, lifeTime, handle, putBytes, now>>
\* C12 mutant: Recover re-admits the file without asking the quota tracker
RecoverLock_NoQuotaCheck ==
    /\ pc[Main] = "rec_lock"
    /\ CanLock
    /\ mu' = Lock(Main)
    /\ stats' = makeSpaceFor(stats, lv[Main].size)
    /\ pc' = [pc EXCEPT ![Main] = "rec_insert"]
    /\ UNCHANGED <<cache, files, lifeTime, walk, lv, ret, handle, putBytes, now>>
\* lines 416-422: s.Lock(); hasSpaceFor; makeSpaceFor
RecoverLock ==
    /\ pc[Main] = "rec_lock"
    /\ CanLock
    /\ IF ~hasSpaceFor(stats, lv[Main].size)
       THEN /\ RecoverFails(ErrReachedMax)
            /\ UNCHANGED <<mu, stats>>
       ELSE /\ mu' = Lock(Main)
            /\ stats' = makeSpaceFor(stats, lv[Main].size)
            /\ pc' = [pc EXCEPT ![Main] = "rec_insert"]
            /\ UNCHANGED <<lv, ret>>
    /\ UNCHANGED <<cache, files, lifeTime, walk, handle, putBytes, now>>
\* lines 423-430: insert into the index, schedule the deletion, unlock
RecoverInsert(tt) ==
    /\ pc[Main] = "rec_insert"
    /\ IsFreeTimer(tt)
    /\ cache' = MapPut(cache, lv[Main].id,
                       [reading |-> 0,
                        header |-> genHeader(lv[Main].id,
                                             files[lv[Main].path].modTime,
                                             lv[Main].size),
                        path |-> lv[Main].path])
    /\ pc' = [pc EXCEPT ![Main] = "rec_age", ![tt] = "armed"]
    /\ lv' = [lv EXCEPT ![Main] = NoLocals,
                        ![tt] = Armed(lv[Main].id, lv[Main].after)]
    /\ mu' = Unlock
    /\ walk' = Tail(walk)
    /\ UNCHANGED <<stats, files, lifeTime, ret, handle, putBytes, now>>
\* newFileStore returns the store: requests are served from now on
RecoverDone ==
    /\ pc[Main] = "rec_age"
    /\ walk = <<>>
    /\ pc' = [pc EXCEPT ![Main] = "serving"]
    /\ UNCHANGED <<cache, stats, mu, files, lifeTime, walk, lv, ret, handle, putBytes, now>>
(***************************************************************************)
(* The FileStore specification                                             *)
(***************************************************************************)
Next ==
    \/ \E ok \in BOOLEAN : RecoverAge(ok)
    \/ RecoverLock
    \/ \E tt \in TimerThreads : RecoverInsert(tt)
    \/ RecoverDone
    \/ \E c \in Clients, id \in IDs : GetRLock(c, id)
    \/ \E c \in Clients : GetBody(c)
    \/ \E c \in Clients : Close(c)
    \/ \E c \in Clients, content \in Contents : PutLock(c, content)
    \/ \E c \in Clients, draws \in DrawSeqs : PutBegin(c, draws)
    \/ \E c \in Clients, n \in -1 .. 2, closeErr \in BOOLEAN : PutWrite(c, n, closeErr)
    \/ \E c \in Clients : PutReserve(c)
    \/ \E c \in Clients, tt \in TimerThreads : PutInsert(c, tt)
    \/ \E c \in Clients, id \in IDs : ClientDelete(c, id)
    \/ \E tt \in TimerThreads : TimerFire(tt)
    \/ \E t \in Clients \cup TimerThreads : DeleteLookup(t)
    \/ \E t \in Clients \cup TimerThreads : DeleteFree(t)
    \/ \E t \in Clients \cup TimerThreads, ok \in BOOLEAN : DeleteRemove(t, ok)
    \/ \E c \in Clients : ReportLock(c)
    \/ \E c \in Clients : ReportUnlock(c)

Spec == Init /\ [][Next]_vars

(***************************************************************************)
(* The store in service, started on an empty data directory, with the      *)
(* scheduling of goroutines made explicit                                  *)
(***************************************************************************)
InitLive ==
    /\ cache = [x \in {} |-> 0]
    /\ stats = [storage |-> 0]
    /\ mu = [writer |-> NoThread, readers |-> {}]
    /\ files = [x \in {} |-> 0]
    /\ lifeTime \in LifeTimes
    /\ walk = <<>>
    /\ pc = [t \in Threads |->
                IF t = Main THEN "serving"
                ELSE IF t \in TimerThreads THEN "free" ELSE "idle"]
    /\ lv = [t \in Threads |-> NoLocals]
    /\ ret = ErrNone
    /\ handle = [c \in Clients |-> NoHandle]
    /\ putBytes = [x \in {} |-> 0]
    /\ now = StartTime

\* the bytes put and the draws of the random source in this specification
LiveContents == {<<7>>}

LiveDraws == {d \in DrawSeqs : d[1] = d[2]}

NextLive ==
    \/ \E c \in Clients, id \in IDs : GetRLock(c, id)
    \/ \E c \in Clients : GetBody(c)
    \/ \E c \in Clients : Close(c)
    \/ \E c \in Clients, content \in LiveContents : PutLock(c, content)
    \/ \E c \in Clients, draws \in LiveDraws : PutBegin(c, draws)
    \/ \E c \in Clients, n \in -1 .. 1, closeErr \in BOOLEAN : PutWrite(c, n, closeErr)
    \/ \E c \in Clients : PutReserve(c)
    \/ \E c \in Clients, tt \in TimerThreads : PutInsert(c, tt)
    \/ \E c \in Clients, id \in IDs : ClientDelete(c, id)
    \/ \E tt \in TimerThreads : TimerFire(tt)
    \/ \E t \in Clients \cup TimerThreads : DeleteLookup(t)
    \/ \E t \in Clients \cup TimerThreads : DeleteFree(t)
    \/ \E t \in Clients \cup TimerThreads, ok \in BOOLEAN : DeleteRemove(t, ok)
    \/ \E c \in Clients : ReportLock(c)
    \/ \E c \in Clients : ReportUnlock(c)

\* The Go scheduler runs every goroutine that is not blocked: a call that
\* has entered a method goes on to its return, and a client that holds a
\* handle closes it.
Fairness ==
    /\ \A c \in Clients :
          /\ WF_vars(GetBody(c))
          /\ WF_vars(Close(c))
          /\ WF_vars(\/ \E draws \in LiveDraws : PutBegin(c, draws)
                     \/ \E n \in -1 .. 1, closeErr \in BOOLEAN : PutWrite(c, n, closeErr)
                     \/ PutReserve(c)
                     \/ \E tt \in TimerThreads : PutInsert(c, tt))
          /\ WF_vars(ReportUnlock(c))
    /\ \A t \in Clients \cup TimerThreads :
          WF_vars(\/ DeleteLookup(t)
                  \/ DeleteFree(t)
                  \/ \E ok \in BOOLEAN : DeleteRemove(t, ok))

SpecLive == InitLive /\ [][NextLive]_vars /\ Fairness

(***************************************************************************)
(* Startup in detail: every lifetime (0 = expiry disabled) and files       *)
(* that are expired, about to expire, or dated after the start time.  The  *)
(* deletion timers armed by Recover run concurrently with the walk.        *)
(***************************************************************************)
RecoverLifeTimes == {0, 3}

RecoverModTimes == {StartTime - 4, StartTime - 2, StartTime + 1}

RecoverDisks ==
    UNION {[S -> [data : Contents, modTime : RecoverModTimes]] : S \in SUBSET Paths}

InitRecover ==
    /\ cache = [x \in {} |-> 0]
    /\ stats = [storage |-> 0]
    /\ mu = [writer |-> NoThread, readers |-> {}]
    /\ files \in RecoverDisks
    /\ lifeTime \in RecoverLifeTimes
    /\ walk = WalkOrder(DOMAIN files)
    /\ pc = [t \in Threads |->
                IF t = Main THEN "rec_age"
                ELSE IF t \in TimerThreads THEN "free" ELSE "idle"]
    /\ lv = [t \in Threads |-> NoLocals]
    /\ ret = ErrNone
    /\ handle = [c \in Clients |-> NoHandle]
    /\ putBytes = [x \in {} |-> 0]
    /\ now = StartTime

NextRecover ==
    \/ \E ok \in BOOLEAN : RecoverAge(ok)
    \/ RecoverLock
    \/ \E tt \in TimerThreads : RecoverInsert(tt)
    \/ RecoverDone
    \/ \E tt \in TimerThreads : TimerFire(tt)
    \/ \E tt \in TimerThreads : DeleteLookup(tt)
    \/ \E tt \in TimerThreads : DeleteFree(tt)
    \/ \E tt \in TimerThreads, ok \in BOOLEAN : DeleteRemove(tt, ok)

SpecRecover == InitRecover /\ [][NextRecover]_vars

(***************************************************************************)
(* The global-registry version of the program (pastes.m, Id.EndLife,       *)
(* handler, walkFunc).  It runs on the same state: cache is pastes.m, mu   *)
(* is the pastes lock, files the data directory.                           *)
(***************************************************************************)
\* lines 558-569: a failing random source ends the generation at once
RECURSIVE RandomId(_, _, _)
RandomId(index, draws, try) ==
    IF try >= randTries THEN [id |-> NoId, err |-> ErrNoUnusedIDFound]
    ELSE IF draws[try + 1] = RandErr THEN [id |-> NoId, err |-> ErrIO]
    ELSE IF draws[try + 1] \notin DOMAIN index
    THEN [id |-> draws[try + 1], err |-> ErrNone]
    ELSE RandomId(index, draws, try + 1)

GenPasteInfo(id, modTime) == [ModTime |-> modTime, Etag |-> <<modTime, IdString(id)>>]

InitPastes ==
    /\ cache = [x \in {} |-> 0]
    /\ stats = [storage |-> 0]
    /\ mu = [writer |-> NoThread, readers |-> {}]
    /\ files \in InitDisks
    /\ lifeTime \in {l \in LifeTimes : l > 0}
    /\ walk = WalkOrder(DOMAIN files)
    /\ pc = [t \in Threads |->
                IF t = Main THEN "walk"
                ELSE IF t \in TimerThreads THEN "free" ELSE "idle"]
    /\ lv = [t \in Threads |-> NoLocals]
    /\ ret = ErrNone
    /\ handle = [c \in Clients |-> NoHandle]
    /\ putBytes = [x \in {} |-> 0]
    /\ now = StartTime

\* time.NewTimer(duration) started at the present time
TimerAt(id, duration, err) ==
    [NoLocals EXCEPT !.id = id, !.after = duration, !.lastErr = err, !.at = now]

\* <-timer.C : the timer has run for its duration
TimerDue(tt) == now >= lv[tt].at + lv[tt].after

\* lines 603-609: a timer goroutine that calls EndLife when it fires
EndLifeAfter(tt, id, duration) ==
    /\ IsFreeTimer(tt)
    /\ pc' = [pc EXCEPT ![tt] = "armed"]
    /\ lv' = [lv EXCEPT ![tt] = TimerAt(id, duration, ErrNone)]

\* lines 755-758: an expired file is handed to a goroutine running EndLife
WalkExpired(tt) ==
    /\ pc[Main] = "walk"
    /\ walk # <<>>
    /\ files[Head(walk)].modTime + lifeTime < now
    /\ IsFreeTimer(tt)
    /\ pc' = [pc EXCEPT ![tt] = "fired"]
    /\ lv' = [lv EXCEPT ![tt] = TimerAt(IdFromPath(Head(walk)), 0, ErrNone)]
    /\ walk' = Tail(walk)
    /\ UNCHANGED <<cache, stats, mu, files, lifeTime, ret, handle, putBytes, now>>
\* lines 769-774
LifeLeft(deathTime, walkNow, life) ==
    IF deathTime > walkNow + life THEN life ELSE deathTime - walkNow

\* an Id.EndLife goroutine is between pastes.Lock() and pastes.Unlock()
EndLifeRunning == \E tt \in TimerThreads : pc[tt] = "endlife"

\* lines 759-780: the file is read, indexed and its deletion scheduled.  The
\* walk writes pastes.m without taking the lock: when an EndLife goroutine
\* is inside its critical section the two accesses race, and the write either
\* goes through or the runtime stops the process ("concurrent map writes").
WalkRecover(tt, readOk, fatal) ==
    /\ pc[Main] = "walk"
    /\ walk # <<>>
    /\ ~(files[Head(walk)].modTime + lifeTime < now)
    /\ fatal => readOk /\ EndLifeRunning
    /\ LET filePath  == Head(walk)
           id        == IdFromPath(filePath)
           modTime   == files[filePath].modTime
           deathTime == modTime + lifeTime
       IN IF ~readOk \/ files[filePath].data = <<>>
          THEN /\ pc' = [pc EXCEPT ![Main] = "failed"]
               /\ ret' = ErrIO
               /\ UNCHANGED <<cache, lv, walk>>
          ELSE IF fatal
          THEN /\ pc' = [t \in Threads |-> "crashed"]
               /\ UNCHANGED <<cache, lv, walk, ret>>
          ELSE /\ cache' = MapPut(cache, id, GenPasteInfo(id, modTime))
               /\ EndLifeAfter(tt, id, LifeLeft(deathTime, now, lifeTime))
               /\ walk' = Tail(walk)
               /\ ret' = ret
    /\ UNCHANGED <<stats, mu, files, lifeTime, handle, putBytes, now>>

\* line 809: the walk is over, the handler is registered
WalkDone ==
    /\ pc[Main] = "walk"
    /\ walk = <<>>
    /\ pc' = [pc EXCEPT ![Main] = "pserving"]
    /\ UNCHANGED <<cache, stats, mu, files, lifeTime, walk, lv, ret, handle, putBytes, now>>
\* lines 590-592: the timer fires (or the goroutine starts) and takes the lock
EndLifeLock(tt) ==
    /\ pc[tt] = "fired" \/ (pc[tt] = "armed" /\ TimerDue(tt))
    /\ CanLock
    /\ mu' = Lock(tt)
    /\ pc' = [pc EXCEPT ![tt] = "endlife"]
    /\ UNCHANGED <<cache, stats, files, lifeTime, walk, lv, ret, handle, putBytes, now>>
\* lines 593-600: os.Remove, then delete from the map or re-arm
EndLifeRemove(tt, ok) ==
    /\ pc[tt] = "endlife"
    /\ LET path    == PastePath(lv[tt].id)
           removed == ok /\ path \in DOMAIN files
       IN IF removed
          THEN /\ files' = MapRemove(files, path)
               /\ cache' = MapRemove(cache, lv[tt].id)
               /\ putBytes' = MapRemove(putBytes, lv[tt].id)
               /\ pc' = [pc EXCEPT ![tt] = "free"]
               /\ lv' = [lv EXCEPT ![tt] = NoLocals]
          ELSE /\ pc' = [pc EXCEPT ![tt] = "armed"]
               /\ lv' = [lv EXCEPT ![tt] = TimerAt(lv[tt].id, Backoff, ErrIO)]
               /\ UNCHANGED <<files, cache, putBytes>>
    /\ mu' = Unlock
    /\ UNCHANGED <<stats, lifeTime, walk, ret, handle, now>>
\* lines 704-720: pastes.Lock(); RandomId; MkdirAll; id.EndLifeAfter(lifeTime)
PostBegin(c, content, draws, tt, mkdirOk) ==
    /\ pc[Main] = "pserving"
    /\ pc[c] = "idle"
    /\ CanLock
    /\ IsFreeTimer(tt)
    /\ LET r == RandomId(cache, draws, 0) IN
       IF r.err # ErrNone \/ ~mkdirOk
       THEN /\ ret' = ErrIO
            /\ UNCHANGED <<mu, pc, lv>>
       ELSE /\ mu' = Lock(c)
            /\ pc' = [pc EXCEPT ![c] = "post_write", ![tt] = "armed"]
            /\ lv' = [lv EXCEPT ![c] = [NoLocals EXCEPT !.id = r.id,
                                           !.content = content,
                                           !.path = PastePath(r.id),
                                           !.at = now],
                                ![tt] = TimerAt(r.id, lifeTime, ErrNone)]
            /\ ret' = ret
    /\ UNCHANGED <<cache, stats, files, lifeTime, walk, handle, putBytes, now>>
\* lines 721-737: O_EXCL create, WriteString, pastes.m[id] = pasteInfo.
\* n is the number of bytes written before an error (-1: the create fails,
\* Len(content): no error); lv[c].at is modTime, taken at line 720.
PostWrite(c, n) ==
    /\ pc[c] = "post_write"
    /\ n \in -1 .. Len(lv[c].content)
    /\ IF lv[c].path \in DOMAIN files \/ n < 0
       THEN /\ ret' = ErrIO
            /\ UNCHANGED <<files, cache, putBytes>>
       ELSE /\ files' = MapPut(files, lv[c].path,
                               [data |-> SubSeq(lv[c].content, 1, n),
                                modTime |-> now])
            /\ IF n < Len(lv[c].content)
               THEN /\ ret' = ErrIO
                    /\ UNCHANGED <<cache, putBytes>>
               ELSE /\ ret' = ErrNone
                    /\ cache' = MapPut(cache, lv[c].id,
                                       GenPasteInfo(lv[c].id, lv[c].at))
                    /\ putBytes' = MapPut(putBytes, lv[c].id, lv[c].content)
    /\ mu' = Unlock
    /\ pc' = [pc EXCEPT ![c] = "idle"]
    /\ lv' = [lv EXCEPT ![c] = NoLocals]
    /\ UNCHANGED <<stats, lifeTime, walk, handle, now>>

\* time passes
Tick ==
    /\ now < StartTime + MaxTicks
    /\ now' = now + 1
    /\ UNCHANGED <<cache, stats, mu, files, lifeTime, walk, pc, lv, ret, handle,
                   putBytes>>
NextPastes ==
    \/ \E tt \in TimerThreads : WalkExpired(tt)
    \/ \E tt \in TimerThreads, readOk \in BOOLEAN, fatal \in BOOLEAN :
          WalkRecover(tt, readOk, fatal)
    \/ WalkDone
    \/ \E tt \in TimerThreads : EndLifeLock(tt)
    \/ \E tt \in TimerThreads, ok \in BOOLEAN : EndLifeRemove(tt, ok)
    \/ \E c \in Clients, content \in Contents, draws \in DrawSeqs,
          tt \in TimerThreads, mkdirOk \in BOOLEAN :
            PostBegin(c, content, draws, tt, mkdirOk)
    \/ \E c \in Clients, n \in -1 .. 2 : PostWrite(c, n)
    \/ Tick

SpecPastes == InitPastes /\ [][NextPastes]_vars

(***************************************************************************)
(* Properties                                                              *)
(***************************************************************************)
Workers == Clients \cup TimerThreads

\* no Put, Delete or Recover is in progress
NoWriteInProgress ==
    /\ Serving
    /\ \A t \in Workers : pc[t] \in {"idle", "free", "armed", "get_body"}

\* C1 (as claimed): Delete never unlinks the backing file of an entry while
\* a handle that Get returned for that entry is still open.
C1_NoUnlinkWhileHandleOpen ==
    [][\A t \in Workers :
          (pc[t] = "del_wait" /\ lv[t].path \in DOMAIN files
                              /\ lv[t].path \notin DOMAIN files')
          => \A c \in Clients : ~(handle[c].open /\ handle[c].id = lv[t].id)]_vars

\* C2: whenever no writer holds the index lock, the quota tracker's running
\* total equals the sum of header.Size over the entries of the index.
C2_QuotaConservation ==
    mu.writer = NoThread => stats.storage = SumSizes(cache, DOMAIN cache)

\* a recovered entry and a put entry are both accounted for
C2_Witness ==
    /\ Serving
    /\ mu.writer = NoThread
    /\ DOMAIN putBytes # {}
    /\ DOMAIN cache \ DOMAIN putBytes # {}
    /\ stats.storage = 2

\* C3 (as claimed): when no Put, Delete or Recover is in progress, an
\* identifier is in the index if and only if its backing file is on disk.
C3_IndexMirrorsDisk ==
    NoWriteInProgress =>
        \A id \in IDs : id \in DOMAIN cache <=> PastePath(id) \in DOMAIN files

C5_CapacityErrorsLeaveNoState ==
    [][\A c \in Clients :
          (/\ pc[c] \in {"put_begin", "put_write", "put_reserve", "put_insert"}
           /\ pc'[c] = "idle"
           /\ ret' \in {ErrReachedMax, ErrNoUnusedIDFound})
          => UNCHANGED <<files, cache, stats>>]_vars

\* a Put has just given up for want of an unused identifier
C5_Witness ==
    /\ Serving
    /\ ret = ErrNoUnusedIDFound
    /\ DOMAIN cache # {}
    /\ \A c \in Clients : pc[c] = "idle"

\* C6: Get and Delete on an identifier that is not in the index (never
\* issued, or deleted by a Delete call or a fired expiry) return
\* ErrPasteNotFound and change neither the index, the quota nor any file.
C6_IdempotentAbsence ==
    [][/\ \A c \in Clients :
            (pc[c] = "get_body" /\ pc'[c] # "get_body" /\ lv[c].id \notin DOMAIN cache)
            => /\ ret' = ErrPasteNotFound
               /\ ~handle'[c].open
               /\ UNCHANGED <<cache, stats, files>>
       /\ \A t \in Workers :
            (pc[t] = "del_lookup" /\ pc'[t] # "del_lookup" /\ lv[t].id \notin DOMAIN cache)
            => /\ ret' = ErrPasteNotFound
               /\ pc'[t] \in {"idle", "armed"}
               /\ UNCHANGED <<cache, stats, files>>]_vars

\* the expiry of a paste that had already been deleted, file included, has
\* fired and its Delete has returned ErrPasteNotFound
C6_Witness ==
    \E tt \in TimerThreads :
        /\ pc[tt] = "armed"
        /\ lv[tt].lastErr = ErrPasteNotFound
        /\ ret = ErrPasteNotFound
        /\ lv[tt].id \notin DOMAIN cache
        /\ PastePath(lv[tt].id) \notin DOMAIN files

\* C7: an identifier that the generation returns is absent from the index,
\* the generation gives up only after randTries tries, the identifier of a
\* Put in progress stays absent until it is inserted, and the live entries
\* (and so the identifiers put and not deleted since) are pairwise distinct
\* with distinct backing paths.
C7_IdentifierUniqueness ==
    /\ \A draws \in DrawSeqs :
          LET r == randomID(cache, draws, 0)
              g == RandomId(cache, draws, 0)
          IN /\ r.err = ErrNone => r.id \in IDs \ DOMAIN cache
             /\ r.err # ErrNone => r.err = ErrNoUnusedIDFound /\ r.tries = randTries
             /\ g.err = ErrNone => g.id \in IDs \ DOMAIN cache
    /\ \A c \in Clients :
          pc[c] \in {"put_write", "put_reserve", "put_insert"}
          => lv[c].id \in IDs \ DOMAIN cache
    /\ DOMAIN putBytes \subseteq DOMAIN cache
    /\ \A i, j \in DOMAIN cache : i # j => cache[i].path # cache[j].path

\* two successful Puts with no Delete in between: two distinct identifiers
C7_Witness == Cardinality(DOMAIN putBytes) = 2

\* C8 (as claimed): every retry of a deletion whose file removal failed
\* attempts the removal of the backing file again.
C8_RetryReattemptsRemoval ==
    [][\A tt \in TimerThreads :
          (pc[tt] = "del_lookup" /\ lv[tt].lastErr = ErrIO /\ pc'[tt] # "del_lookup")
          => pc'[tt] = "del_free"]_vars

C10_AtMostOnePendingDeletion ==
    \A id \in IDs :
        Cardinality({tt \in TimerThreads : pc[tt] = "armed" /\ lv[tt].id = id}) <= 1

(***************************************************************************)
(* Recovery                                                                *)
(***************************************************************************)
\* the step of the startup walk taken on the file at the head of the walk
RecoverStep == pc'[Main] # pc[Main] \/ walk' # walk

Unexpired == {p \in DOMAIN files : ~RecoverExpired(files[p].modTime)}

RECURSIVE SumFileSizes(_)
SumFileSizes(S) ==
    IF S = {} THEN 0
    ELSE LET p == CHOOSE x \in S : TRUE
         IN Len(files[p].data) + SumFileSizes(S \ {p})

\* no scheduled deletion is running or has failed
TimersQuiet ==
    \A tt \in TimerThreads :
        pc[tt] = "free" \/ (pc[tt] = "armed" /\ lv[tt].lastErr = ErrNone)

C13_DeleteWaitsWithoutLock ==
    \A t \in Workers : pc[t] = "del_wait" => (mu.writer # t /\ CanRLock)

\* C14 (as claimed): while a Get or a Report is in progress, another Get
\* (which needs s.RLock) and another Report (which needs s.Lock) can both
\* enter at once.
C14_ReadersDoNotBlockReaders ==
    \A c \in Clients :
        pc[c] \in {"get_body", "report"} => (CanRLock /\ CanLock)

\* the goroutines inside a critical section taken with s.Lock()
Writers ==
    {t \in Threads :
        pc[t] \in {"put_begin", "put_write", "put_reserve", "put_insert",
                   "del_lookup", "del_free", "del_wait", "rec_insert", "report"}}

\* C15: at most one Put, Delete or Recover insertion is inside its critical
\* section, it is the writer of the lock, no Get lookup runs meanwhile, and the
\* index that a Get looks up agrees with the quota total.
C15_WritesMutuallyExclusive ==
    /\ Cardinality(Writers) <= 1
    /\ \A t \in Writers : mu.writer = t
    /\ Writers # {} => mu.readers = {} /\ \A c \in Clients : pc[c] # "get_body"
    /\ \A c \in Clients :
          pc[c] = "get_body"
            => c \in mu.readers /\ stats.storage = SumSizes(cache, DOMAIN cache)

\* a Put has reserved the space of an entry it has not inserted yet, while a
\* deletion timer is due and the other client holds nothing
C15_Witness ==
    /\ \E c \in Clients :
          /\ pc[c] = "put_insert"
          /\ mu.writer = c
          /\ stats.storage # SumSizes(cache, DOMAIN cache)
    /\ \E tt \in TimerThreads : pc[tt] = "armed"
    /\ \E c \in Clients : pc[c] = "idle"

(***************************************************************************)
(* Exclusive create                                                        *)
(***************************************************************************)
\* C16: no step of Put changes or removes a file that exists, and a Put whose
\* fresh identifier maps to a path that exists returns the error of the
\* exclusive create and leaves files, index and quota total as they were.
C16_ExclusiveCreate ==
    [][\A c \in Clients :
          (pc[c] \in {"put_begin", "put_write", "put_reserve", "put_insert"}
                /\ pc'[c] # pc[c])
          => /\ \A p \in DOMAIN files : p \in DOMAIN files' /\ files'[p] = files[p]
             /\ (pc[c] = "put_write" /\ lv[c].path \in DOMAIN files)
                   => /\ lv[c].id \notin DOMAIN cache
                      /\ ret' = ErrExist
                      /\ pc'[c] = "idle"
                      /\ files' = files
                      /\ cache' = cache
                      /\ stats' = stats]_vars

\* a Put has just failed on a file that an earlier failure left behind
C16_Witness ==
    /\ ret = ErrExist
    /\ \A c \in Clients : pc[c] = "idle"
    /\ \E id \in IDs \ DOMAIN cache : PastePath(id) \in DOMAIN files
    /\ stats.storage = SumSizes(cache, DOMAIN cache)

(***************************************************************************)
(* Expiry disabled                                                         *)
(***************************************************************************)
\* C17 (as claimed): with a lifetime of zero the startup walk removes no file
\* and no deletion is ever scheduled for a recovered entry.
C17_NoDeletionWhenDisabled ==
    lifeTime = 0 => \A tt \in TimerThreads : pc[tt] = "free"

(***************************************************************************)
(* Progress                                                                *)
(***************************************************************************)
\* the goroutine that holds the lock is never blocked: a Delete at its Wait
\* can go on whatever handles are open
HolderCanStep ==
    \A t \in Threads :
        mu.writer = t
          => /\ pc[t] \in {"put_begin", "put_write", "put_reserve", "put_insert",
                            "del_lookup", "del_free", "del_wait", "rec_insert",
                            "report"}
             /\ pc[t] = "del_wait" => WaitDone(t)
             /\ pc[t] = "put_insert" /\ lifeTime > 0
                   => \E tt \in TimerThreads : IsFreeTimer(tt)
             /\ pc[t] = "rec_insert" => \E tt \in TimerThreads : IsFreeTimer(tt)

\* C18: closing a handle takes no lock; the holder of the index lock is never
\* blocked; every Delete returns; the write lock and every read lock that is
\* held is released, so that an operation waiting for the lock gets it.
C18_NoDeadlock ==
    /\ [][\A c \in Clients :
              (handle[c].open /\ ~handle'[c].open) => mu' = mu /\ pc' = pc]_vars
    /\ [](\A c \in Clients : handle[c].open => ENABLED Close(c))
    /\ []HolderCanStep
    /\ \A t \in Clients \cup TimerThreads :
          (pc[t] \in {"del_lookup", "del_free", "del_wait"})
              ~> (pc[t] \in {"idle", "free", "armed"})
    /\ (mu.writer # NoThread) ~> (mu.writer = NoThread)
    /\ \A c \in Clients : (c \in mu.readers) ~> (c \notin mu.readers)

\* a Delete is at its Wait, holding the lock, while a handle of the same
\* entry is open
C18_Witness ==
    \E t \in Clients \cup TimerThreads, c \in Clients :
        /\ pc[t] = "del_wait"
        /\ mu.writer = t
        /\ handle[c].open
        /\ handle[c].id = lv[t].id

(***************************************************************************)
(* Expiry in the global-registry version                                   *)
(***************************************************************************)
\* C19 (as claimed): the file and the registry entry of a paste created by a
\* successful POST are removed no earlier than lifeTime after its creation.
C19_NoPrematureExpiry ==
    [][\A id \in DOMAIN putBytes :
          (id \notin DOMAIN cache' \/ PastePath(id) \notin DOMAIN files')
             => now >= cache[id].ModTime + lifeTime]_vars

\* C20 (as claimed): the walk never writes the registry while an Id.EndLife
\* goroutine started for an expired file is inside its critical section
\* (the lock keeps the two apart), and the process is never stopped by the
\* runtime for concurrent map writes.
C20_WalkInsertsUnderLock ==
    [][(pc[Main] = "walk" /\ pc'[Main] \in {"walk", "crashed"}
            /\ (cache' # cache \/ pc'[Main] = "crashed"))
       => ~EndLifeRunning]_vars

(***************************************************************************)
(* The delay of a recovered entry's deletion                               *)
(***************************************************************************)
\* C21 (as claimed): with a positive lifetime, the duration for which Recover
\* schedules the deletion of a recovered entry is never negative and never
\* greater than the lifetime, whatever the file's modification time.
C21_LifeLeftWithinLifeTime ==
    [][\A tt \in TimerThreads :
          (lifeTime > 0 /\ pc[Main] = "rec_insert"
                /\ pc[tt] = "free" /\ pc'[tt] = "armed")
          => (lv'[tt].after >= 0 /\ lv'[tt].after <= lifeTime)]_vars

====
